---- MODULE Spec2Model ----
(***************************************************************************)
(* State-machine model of the LED-strip firmware                           *)
(* (src/StandupMathsChristmasTree.ino, the revision of lines 1-545).       *)
(*                                                                         *)
(* The firmware is single threaded: loop() serves at most one HTTP request *)
(* to completion and then runs the update of the current effect.  Every C  *)
(* function of the sketch is an operator from a machine record (the        *)
(* sketch's globals, the strip, the Preferences store) to a machine        *)
(* record; every request handler and the effect update is one action.      *)
(***************************************************************************)
EXTENDS Integers, FiniteSets, Sequences, TLC

VARIABLES
  numPixels,          \* uint16_t numPixels
  ledMask,            \* bool* ledMask, an array (see Fill, Get, Size)
  ledPositions,       \* Point* ledPositions, an array
  pixels,             \* the color buffer of the Adafruit_NeoPixel object
  allocated,          \* which of the three pointers are not nullptr
  strip,              \* what pixels->show() shifted out last
  nShow,              \* pixels->show() calls made by the last operation
  baseColor,          \* <<baseR, baseG, baseB>>
  currentEffect,      \* EffectType currentEffect
  effectStartTimeMs,  \* unsigned long effectStartTimeMs
  prefs,              \* the Preferences namespace "ledcfg"
  writable,           \* the store took the writes of the last operation
  now,                \* millis()
  uptime,             \* milliseconds passed since the first state
  startedAt,          \* uptime when startEffect() read millis() (0: none running)
  phase,              \* position in loop(): "client" or "effect"
  last,               \* the operation that ran last, with its input
  request,            \* method and path of the request handleClient() served last
  code,               \* HTTP status of the last response (0: none)
  reply,              \* the "num" of the last response, if it was to /get_num_leds
  fault               \* the last operation accessed an array out of bounds
                      \* or through nullptr

vars == <<numPixels, ledMask, ledPositions, pixels, allocated, strip, nShow,
          baseColor, currentEffect, effectStartTimeMs, prefs, writable,
          now, uptime, startedAt, phase, last, request, code, reply, fault>>

(***************************************************************************)
(* Program constants.                                                      *)
(***************************************************************************)
STRIP_NUMPIXELS_DEFAULT == 500
MAX_NUM_LEDS == 8196
EFFECT_NONE == 0
EFFECT_BLINK == 1
EFFECT_ALL_ON == 2
BASE_DEFAULT == 50
SETUP_DELAY_MS == 500
SETUP_LED_DELAY_MS == 5
secs_on == 1
secs_off == 1
TwoPow16 == 65536

(***************************************************************************)
(* Bounds of the model.                                                    *)
(***************************************************************************)
MaxNum == 2          \* requests name the LEDs -1..MaxNum-1 and ask for 0..MaxNum LEDs
MaxAdvance == 1000   \* the clock runs this far past the end of setup()
TickMs == 1000       \* a loop iteration takes 0 or TickMs milliseconds

Black == <<0, 0, 0>>
Origin == <<0, 0, 0>>

(***************************************************************************)
(* A C array of n elements, held as its length, the value most elements    *)
(* have (fill) and the elements that differ from it (500 LEDs are the      *)
(* default, and only the few LEDs a request names ever differ).            *)
(* Tab(n, v, f) is the array of n elements whose element i is f[i] for i   *)
(* in DOMAIN f and v for every other i.                                    *)
(***************************************************************************)
Tab(n, v, f) ==
  [len |-> n, fill |-> v,
   set |-> [i \in {j \in DOMAIN f : j >= 0 /\ j < n /\ f[j] # v} |-> f[i]]]
Fill(n, v) == [len |-> n, fill |-> v, set |-> [i \in {} |-> v]]
Size(a) == a.len
Indices(a) == 0..(a.len - 1)
Support(a) == DOMAIN a.set
Get(a, i) == IF i \in DOMAIN a.set THEN a.set[i] ELSE a.fill
Put(a, i, x) ==
  Tab(a.len, a.fill, [j \in Support(a) \cup {i} |-> IF j = i THEN x ELSE Get(a, j)])

\* What an uninitialised Point may hold.
Garbage == {Origin, <<7, 7, 7>>}
\* The coordinates a request may give.
Points == {<<1, 2, 3>>}

\* unsigned long (32 bits), held as <<high half, low half>>: TLC's
\* integers stop short of 2^32.
UL(n) == <<(n \div TwoPow16) % TwoPow16, n % TwoPow16>>
\* a + d (mod 2^32), d a small number
add32(a, d) ==
  LET lo == a[2] + d
  IN  <<(a[1] + (lo \div TwoPow16)) % TwoPow16, lo % TwoPow16>>
\* a - b without the wrap of unsigned arithmetic: 0 when a < b
sub32Clamped(a, b) ==
  IF a[1] < b[1] \/ (a[1] = b[1] /\ a[2] < b[2])
  THEN <<0, 0>>
  ELSE LET lo == a[2] - b[2]
           borrow == IF lo < 0 THEN 1 ELSE 0
       IN  <<a[1] - b[1] - borrow, lo + borrow * TwoPow16>>

\* a - b (mod 2^32)
sub32(a, b) ==
  LET lo == a[2] - b[2]
      borrow == IF lo < 0 THEN 1 ELSE 0
  IN  <<(a[1] - b[1] - borrow) % TwoPow16, lo + borrow * TwoPow16>>
\* a / 1000, from 65536 = 65 * 1000 + 536
div1000(a) == a[1] * 65 + ((a[1] * 536 + a[2]) \div 1000)

NoKey == -1
NoMap == [i \in {} |-> Origin]
\* A JSON object keyed by LED index is held as the members written out
\* (map) and a run: the members "0" .. "run-1", each with the value RunPoint,
\* so that an object naming every LED of a long strip stays small.
RunPoint == <<1, 2, 3>>
EmptyBody == [kind |-> "empty", map |-> NoMap, run |-> 0]
Obj(m) == [kind |-> "obj", map |-> m, run |-> 0]
\* JsonObject::size()
members(obj) == Cardinality(DOMAIN obj.map \ (0..(obj.run - 1))) + obj.run
\* the keys of the object, as atoi reads them
hasKey(obj, i) == i \in DOMAIN obj.map \/ (i >= 0 /\ i < obj.run)
\* the value of member i
valueOf(obj, i) == IF i \in DOMAIN obj.map THEN obj.map[i] ELSE RunPoint
EmptyStore ==
  [led_positions |-> EmptyBody, num_leds |-> NoKey,
   led_state |-> [saved |-> FALSE, mask |-> Fill(0, FALSE)],
   bR |-> NoKey, bG |-> NoKey, bB |-> NoKey, last_effect |-> NoKey]

\* prefs.getUInt(key, default), prefs.getUChar(key, default)
getUInt(v, default) == IF v = NoKey THEN default ELSE v

\* prefs.putUInt(key, v), putUChar, putString: a write that fails returns 0
\* and leaves the entry as it was; no caller looks at what it returns.
put(s, key, v) ==
  IF s.writable THEN [s EXCEPT !.prefs = [@ EXCEPT ![key] = v]] ELSE s

(***************************************************************************)
(* The machine record: the sketch's globals at power-on.                   *)
(***************************************************************************)
Globals(store) ==
  [numPixels |-> STRIP_NUMPIXELS_DEFAULT,
   ledMask |-> Fill(0, FALSE),
   ledPositions |-> Fill(0, Origin),
   pixels |-> Fill(0, Black),
   allocated |-> {},
   strip |-> Fill(0, Black),
   nShow |-> 0,
   baseColor |-> <<BASE_DEFAULT, BASE_DEFAULT, BASE_DEFAULT>>,
   currentEffect |-> EFFECT_NONE,
   effectStartTimeMs |-> UL(0),
   prefs |-> store,
   writable |-> TRUE,
   code |-> 0,
   reply |-> 0,
   fault |-> FALSE]

Cur ==
  [numPixels |-> numPixels, ledMask |-> ledMask, ledPositions |-> ledPositions,
   pixels |-> pixels, allocated |-> allocated, strip |-> strip, nShow |-> 0,
   baseColor |-> baseColor, currentEffect |-> currentEffect,
   effectStartTimeMs |-> effectStartTimeMs, prefs |-> prefs, writable |-> TRUE,
   code |-> 0, reply |-> 0, fault |-> FALSE]

\* The same, with a store that fails every write of the operation to come.
Unwritable == [Cur EXCEPT !.writable = FALSE]

Commit(s) ==
  /\ numPixels' = s.numPixels
  /\ ledMask' = s.ledMask
  /\ ledPositions' = s.ledPositions
  /\ pixels' = s.pixels
  /\ allocated' = s.allocated
  /\ strip' = s.strip
  /\ nShow' = s.nShow
  /\ baseColor' = s.baseColor
  /\ currentEffect' = s.currentEffect
  /\ effectStartTimeMs' = s.effectStartTimeMs
  /\ prefs' = s.prefs
  /\ writable' = s.writable
  /\ code' = s.code
  /\ reply' = s.reply
  /\ fault' = s.fault

(***************************************************************************)
(* Helpers of the sketch.                                                  *)
(***************************************************************************)

\* pixels->show(): the buffer is shifted out to the strip.
show(s) == [s EXCEPT !.strip = s.pixels, !.nShow = s.nShow + 1]

\* allocateStrip as handleSetNumLEDs of the earlier revision meant it: the old
\* mask values are copied into the new allocation.
allocateStripKeepMask(s, newNum, g) ==
  LET freed == IF "pixels" \in s.allocated
               THEN show([s EXCEPT !.pixels = Fill(Size(s.pixels), Black)])
               ELSE s
      fresh == [freed EXCEPT
                  !.numPixels = newNum,
                  !.ledMask = Tab(newNum, FALSE,
                                  [i \in Support(s.ledMask) |->
                                     Get(s.ledMask, i)]),
                  !.ledPositions = Fill(newNum, g),
                  !.pixels = Fill(newNum, Black),
                  !.allocated = {"pixels", "ledMask", "ledPositions"}]
  IN  show(fresh)

\* allocateStrip(newNum).  g is what the uninitialised Points of
\* `new Point[numPixels]` hold: Point has no constructor.
allocateStrip(s, newNum, g) ==
  LET freed == IF "pixels" \in s.allocated
               THEN show([s EXCEPT !.pixels = Fill(Size(s.pixels), Black)])
               ELSE s
      fresh == [freed EXCEPT
                  !.numPixels = newNum,
                  !.ledMask = Fill(newNum, FALSE),
                  !.ledPositions = Fill(newNum, g),
                  !.pixels = Fill(newNum, Black),
                  !.allocated = {"pixels", "ledMask", "ledPositions"}]
  IN  show(fresh)

\* setPixelColor without its test of the mask.
unmaskedColor(mask, index, c) == c

\* The color setPixelColor(index, r, g, b) hands to the strip object.
maskedColor(mask, index, c) == IF Get(mask, index) THEN c ELSE Black

\* setPixelColor(index, r, g, b).  ledMask[index] is read without a bounds
\* check; Adafruit_NeoPixel::setPixelColor ignores an index past its length.
setPixelColor(s, index, c) ==
  IF "pixels" \notin s.allocated THEN s
  ELSE IF index \notin Indices(s.ledMask) THEN [s EXCEPT !.fault = TRUE]
  ELSE IF index \notin Indices(s.pixels) THEN s
  ELSE [s EXCEPT !.pixels = Put(s.pixels, index, maskedColor(s.ledMask, index, c))]

\* showPixelColors()
showPixelColors(s) == IF "pixels" \notin s.allocated THEN s ELSE show(s)

\* The loop below with pixels->setPixelColor in place of setPixelColor: no
\* look at the mask.
setAllPixelsUnmasked(s, c) ==
  IF "pixels" \notin s.allocated THEN s
  ELSE [s EXCEPT
          !.pixels = Tab(Size(s.pixels), Black,
                         [i \in Indices(s.pixels) |->
                            IF i < s.numPixels THEN c ELSE Get(s.pixels, i)])]

\* for (uint16_t i = 0; i < numPixels; ++i) setPixelColor(i, c): a call
\* touches only pixel i, so the loop is the calls taken side by side.
setAllPixels(s, c) ==
  IF "pixels" \notin s.allocated THEN s
  ELSE [s EXCEPT
          !.pixels = Tab(Size(s.pixels), Black,
                         [i \in Support(s.pixels) \cup Support(s.ledMask) |->
                            IF i < s.numPixels /\ i \in Indices(s.ledMask)
                            THEN maskedColor(s.ledMask, i, c)
                            ELSE Get(s.pixels, i)]),
          !.fault = s.fault \/ s.numPixels > Size(s.ledMask)]

\* redrawPixels without its else branch: a masked-off LED keeps its color.
redrawPixelsSkipOff(s) ==
  IF "pixels" \notin s.allocated THEN s
  ELSE LET buf == Tab(Size(s.pixels), Black,
                      [i \in Support(s.pixels) \cup Support(s.ledMask) |->
                         IF (i < s.numPixels /\ i \in Indices(s.ledMask)
                               /\ Get(s.ledMask, i))
                         THEN s.baseColor ELSE Get(s.pixels, i)])
       IN  show([s EXCEPT !.pixels = buf])

\* redrawPixels()
redrawPixels(s) ==
  IF "pixels" \notin s.allocated THEN s
  ELSE LET oob == s.numPixels > Size(s.ledMask)
           buf == Tab(Size(s.pixels), Black,
                      [i \in Support(s.pixels) \cup Support(s.ledMask) |->
                         IF i >= s.numPixels THEN Get(s.pixels, i)
                         ELSE IF i \in Indices(s.ledMask) /\ Get(s.ledMask, i)
                              THEN s.baseColor ELSE Black])
       IN  show([s EXCEPT !.pixels = buf, !.fault = s.fault \/ oob])

\* The loop of loadLedPositionsFromStorage over the members of obj:
\* ledPositions[idx] = value for every key idx with 0 <= idx < n.  An array
\* the run covers whole is held as that one value everywhere.
readPositions(arr, obj, n) ==
  LET whole == obj.run >= Size(arr) /\ obj.run >= 1
      named(i) == hasKey(obj, i) /\ i >= 0 /\ i < n
      keys == DOMAIN obj.map \cup (IF whole THEN {} ELSE 0..(obj.run - 1))
  IN  Tab(Size(arr), IF whole /\ n >= Size(arr) THEN RunPoint ELSE arr.fill,
          [i \in Support(arr) \cup keys |->
             IF named(i) THEN valueOf(obj, i) ELSE Get(arr, i)])

\* loadLedPositionsFromStorage without its call of allocateStrip: the count
\* follows the mapping, the arrays do not.
loadWithoutResize(s, g) ==
  LET saved == s.prefs.led_positions IN
  IF saved.kind \in {"empty", "bad"} THEN s
  ELSE
    LET newNum == members(saved) % TwoPow16
    IN  [s EXCEPT
           !.numPixels = newNum,
           !.prefs.num_leds = IF newNum # s.numPixels THEN newNum ELSE @,
           !.ledPositions = readPositions(s.ledPositions, saved, newNum)]

\* loadLedPositionsFromStorage without its test newNum != numPixels: it
\* calls allocateStrip for a mapping of any size.
loadAlwaysResizes(s, g) ==
  LET saved == s.prefs.led_positions IN
  IF saved.kind = "empty" THEN s
  ELSE IF saved.kind = "bad" THEN s
  ELSE
    LET newNum == members(saved) % TwoPow16
        sized == allocateStrip(put(s, "num_leds", newNum), newNum, g)
    IN  [sized EXCEPT
           !.numPixels = newNum,
           !.ledPositions = readPositions(sized.ledPositions, saved, newNum)]

\* loadLedPositionsFromStorage()
loadLedPositionsFromStorage(s, g) ==
  LET saved == s.prefs.led_positions IN
  IF saved.kind = "empty" THEN s
  ELSE IF saved.kind = "bad" THEN s
  ELSE
    LET newNum == members(saved) % TwoPow16
        sized == IF newNum # s.numPixels
                 THEN allocateStrip(put(s, "num_leds", newNum), newNum, g)
                 ELSE s
        named(i) == hasKey(saved, i) /\ i >= 0 /\ i < newNum
    IN  IF (\A k \in DOMAIN saved.map : ~named(k)) /\ (saved.run = 0 \/ newNum = 0)
        THEN [sized EXCEPT !.numPixels = newNum]
        ELSE IF "ledPositions" \notin sized.allocated
             THEN [sized EXCEPT !.numPixels = newNum, !.fault = TRUE]
             ELSE [sized EXCEPT
                     !.numPixels = newNum,
                     !.ledPositions = readPositions(sized.ledPositions, saved, newNum)]

\* stopAllEffects with a reset of the mask among its resets.
stopAllEffectsUnmasking(s) ==
  LET stopped == put([s EXCEPT !.currentEffect = EFFECT_NONE,
                               !.effectStartTimeMs = UL(0),
                               !.ledMask = Fill(Size(s.ledMask), FALSE)],
                     "last_effect", EFFECT_NONE)
  IN  showPixelColors(setAllPixels(stopped, stopped.baseColor))

\* stopAllEffects()
stopAllEffects(s) ==
  LET stopped == put([s EXCEPT !.currentEffect = EFFECT_NONE,
                               !.effectStartTimeMs = UL(0)],
                     "last_effect", EFFECT_NONE)
  IN  showPixelColors(setAllPixels(stopped, stopped.baseColor))

\* startEffect without its putUInt: the store keeps what stopAllEffects wrote.
startEffectUnsaved(s, effect, millis) ==
  LET stopped == stopAllEffects(s)
  IN  [stopped EXCEPT !.currentEffect = effect,
                      !.effectStartTimeMs = millis]

\* startEffect(effect); millis is what millis() returns.
startEffect(s, effect, millis) ==
  LET stopped == stopAllEffects(s)
  IN  put([stopped EXCEPT !.currentEffect = effect,
                          !.effectStartTimeMs = millis],
          "last_effect", effect)

\* The test of updateBlinkEffect(): is the strip on, elapsed ms after the start?
blinkOn(elapsed) == (div1000(elapsed) % (secs_on + secs_off)) <= secs_on

\* updateBlinkEffect(); millis is what millis() returns.
updateBlinkEffect(s, millis) ==
  LET elapsed == sub32(millis, s.effectStartTimeMs)
      c == IF blinkOn(elapsed) THEN s.baseColor ELSE Black
  IN  showPixelColors(setAllPixels(s, c))

(***************************************************************************)
(* HTTP handlers.  A request body is a record: kind "empty" (no body),     *)
(* "bad" (deserializeJson fails), "other" (JSON, but no object) or "obj".  *)
(***************************************************************************)
send(s, status) == [s EXCEPT !.code = status]

\* handleConfigureLEDs on a mask cleared first: an LED that the body does not
\* list ends masked off.
handleConfigureLEDsFresh(s, body) ==
  IF body.kind = "empty" THEN send(s, 400)
  ELSE IF body.kind = "bad" THEN send(s, 400)
  ELSE
    LET keys == {k \in DOMAIN body.map : k >= 0 /\ k < s.numPixels}
        masked == [s EXCEPT !.ledMask =
                              Tab(Size(s.ledMask), FALSE, [i \in keys |-> body.map[i]])]
    IN  send(redrawPixels(masked), 200)

\* handleConfigureLEDs(); body.map: index (atoi of the key) -> bool
handleConfigureLEDs(s, body) ==
  IF body.kind = "empty" THEN send(s, 400)
  ELSE IF body.kind = "bad" THEN send(s, 400)
  ELSE
    LET keys == {k \in DOMAIN body.map : k >= 0 /\ k < s.numPixels}
        masked == [s EXCEPT !.ledMask =
                              Tab(Size(s.ledMask), FALSE,
                                  [i \in Support(s.ledMask) \cup keys |->
                                     IF i \in keys THEN body.map[i]
                                     ELSE Get(s.ledMask, i)])]
    IN  send(redrawPixels(masked), 200)

\* handleSetLedPositions with the load before the putString: it reads the
\* mapping stored earlier.
handleSetLedPositionsLoadFirst(s, body, g) ==
  IF body.kind = "empty" THEN send(s, 400)
  ELSE IF body.kind = "bad" THEN send(s, 400)
  ELSE send([loadLedPositionsFromStorage(s, g) EXCEPT !.prefs.led_positions = body], 200)

\* handleSetLedPositions(); body.map: index (atoi of the key) -> [x, y, z]
handleSetLedPositions(s, body, g) ==
  IF body.kind = "empty" THEN send(s, 400)
  ELSE IF body.kind = "bad" THEN send(s, 400)
  ELSE send(loadLedPositionsFromStorage(put(s, "led_positions", body), g), 200)

\* handleGetSavedLedPositions()
handleGetSavedLedPositions(s) ==
  IF s.prefs.led_positions.kind = "empty" THEN send(s, 204) ELSE send(s, 200)

\* handleSetNumLEDs with the range test after allocateStrip.
handleSetNumLEDsLate(s, body, g) ==
  IF body.kind = "empty" THEN send(s, 400)
  ELSE IF body.kind = "bad" THEN send(s, 400)
  ELSE IF body.kind # "num" THEN send(s, 400)
  ELSE
    LET sized == allocateStrip(s, body.num % TwoPow16, g)
        saved == [sized EXCEPT !.prefs.num_leds = sized.numPixels,
                               !.prefs.led_state = [saved |-> TRUE, mask |-> sized.ledMask]]
    IN  IF body.num <= 0 \/ body.num > MAX_NUM_LEDS THEN send(sized, 400)
        ELSE send(redrawPixels(saved), 200)

\* handleSetNumLEDs(); body.kind "num" is an object whose "num" is the int body.num,
\* "nonum" one whose "num" is missing or no int.
handleSetNumLEDs(s, body, g) ==
  IF body.kind = "empty" THEN send(s, 400)
  ELSE IF body.kind = "bad" THEN send(s, 400)
  ELSE IF body.kind # "num" THEN send(s, 400)
  ELSE IF body.num <= 0 \/ body.num > MAX_NUM_LEDS THEN send(s, 400)
  ELSE
    LET sized == allocateStrip(s, body.num % TwoPow16, g)
        saved == put(put(sized, "num_leds", sized.numPixels),
                     "led_state", [saved |-> TRUE, mask |-> sized.ledMask])
    IN  send(redrawPixels(saved), 200)

\* handleGetNumLEDs()
handleGetNumLEDs(s) == send([s EXCEPT !.reply = s.numPixels], 200)

\* doc[name] | old, old a uint8_t: the member, if there is one and it is an
\* integer that a uint8_t holds; old otherwise.
orElse(rgb, name, old) ==
  IF name \in DOMAIN rgb /\ rgb[name] \in 0..255 THEN rgb[name] ELSE old

\* handleSetBaseColor with 50 in place of the current value as the fallback.
handleSetBaseColorReset(s, body) ==
  IF body.kind = "empty" THEN send(s, 400)
  ELSE IF body.kind = "bad" THEN send(s, 400)
  ELSE
    LET c == <<orElse(body.rgb, "r", BASE_DEFAULT), orElse(body.rgb, "g", BASE_DEFAULT),
               orElse(body.rgb, "b", BASE_DEFAULT)>>
        set == [s EXCEPT !.baseColor = c,
                         !.prefs.bR = c[1], !.prefs.bG = c[2], !.prefs.bB = c[3]]
    IN  send(redrawPixels(set), 200)

\* handleSetBaseColor(); body.rgb: the integer members among "r", "g", "b"
handleSetBaseColor(s, body) ==
  IF body.kind = "empty" THEN send(s, 400)
  ELSE IF body.kind = "bad" THEN send(s, 400)
  ELSE
    LET pick(name, old) == orElse(body.rgb, name, old)
        c == <<pick("r", s.baseColor[1]), pick("g", s.baseColor[2]),
               pick("b", s.baseColor[3])>>
        set == put(put(put([s EXCEPT !.baseColor = c], "bR", c[1]), "bG", c[2]), "bB", c[3])
    IN  send(redrawPixels(set), 200)

\* handleStopEffects with the base color put back to its default.
handleStopEffectsDefault(s) ==
  send(stopAllEffects([s EXCEPT !.baseColor = <<BASE_DEFAULT, BASE_DEFAULT, BASE_DEFAULT>>]),
       200)

\* handleStopEffects()
handleStopEffects(s) == send(stopAllEffects(s), 200)

\* handleStartBlinkEffect with the effect after EFFECT_ALL_ON, which the
\* enum does not declare.
handleStartBlinkEffectNext(s, millis) == send(startEffect(s, EFFECT_ALL_ON + 1, millis), 200)

\* handleStartBlinkEffect()
handleStartBlinkEffect(s, millis) == send(startEffect(s, EFFECT_BLINK, millis), 200)

\* handleAllOnEffect with stopAllEffects in place of startEffect.
handleAllOnEffectStopped(s, millis) == send(redrawPixels(stopAllEffects(s)), 200)

\* handleAllOnEffect()
handleAllOnEffect(s, millis) ==
  send(redrawPixels(startEffect(s, EFFECT_ALL_ON, millis)), 200)

\* handleNotFound with a stop of the effects before its answer.
handleNotFoundStops(s) == send(stopAllEffects(s), 404)

\* handleNotFound()
handleNotFound(s) == send(s, 404)

\* handleRoot(), handleStyle(), handleMainJs(), ...: send_P(200, ...)
handleRoot(s) == send(s, 200)

(***************************************************************************)
(* setup() and the effect update of loop().                                *)
(***************************************************************************)

\* for (i < numPixels) { setPixelColor(i, base); showPixelColors(); }
lightOneByOne(s) ==
  LET lit == setAllPixels(s, s.baseColor)
  IN  IF "pixels" \notin s.allocated \/ s.numPixels = 0 THEN lit
      ELSE [lit EXCEPT !.strip = lit.pixels, !.nShow = s.nShow + s.numPixels]

\* setup(), from the stored preferences; g is what the Points of its
\* allocations hold (the second allocateStrip frees what the first allocated).
setup(store, g) ==
  LET s0 == Globals(store)
      s1 == [s0 EXCEPT !.baseColor = <<getUInt(store.bR, BASE_DEFAULT),
                                        getUInt(store.bG, BASE_DEFAULT),
                                        getUInt(store.bB, BASE_DEFAULT)>>]
      s2 == loadLedPositionsFromStorage(s1, g)
      savedNum == getUInt(s2.prefs.num_leds, 0)
      n == IF savedNum >= 1 /\ savedNum <= MAX_NUM_LEDS
           THEN savedNum % TwoPow16 ELSE STRIP_NUMPIXELS_DEFAULT
      s3 == allocateStrip([s2 EXCEPT !.numPixels = n], n, g)
      s4 == [s3 EXCEPT !.currentEffect = getUInt(s3.prefs.last_effect, EFFECT_NONE)]
      s5 == showPixelColors(setAllPixels(s4, Black))
      s6 == lightOneByOne(s5)
  IN  showPixelColors(setAllPixels(s6, Black))

\* millis() when setup() returns is at least the sum of its delay() calls for
\* n LEDs (starting WiFi, mDNS and the store takes the rest); every start of
\* the model takes as long as the delays of the longest strip.
setupMillis(n) == SETUP_DELAY_MS + SETUP_LED_DELAY_MS * n + SETUP_DELAY_MS

\* The switch of loop() with the case of EFFECT_BLINK taken for every effect.
updateEffectAlways(s, millis) == updateBlinkEffect(s, millis)

\* The switch of loop(); millis is what millis() returns.
updateEffect(s, millis) ==
  IF s.currentEffect = EFFECT_BLINK THEN updateBlinkEffect(s, millis) ELSE s

(***************************************************************************)
(* The requests and the time steps the model draws from.                   *)
(***************************************************************************)
Malformed == {EmptyBody, [kind |-> "bad", map |-> NoMap, run |-> 0]}

\* One LED switched on or off: an LED of the strip, -1, or the LED just past
\* the end of a strip of n LEDs.
ConfigBodies(n) ==
  Malformed \cup
  {Obj(k :> b) : k \in ((-1)..(MaxNum - 1)) \cup {n}, b \in BOOLEAN}

\* A position for each of the LEDs named: some of the LEDs 0..MaxNum-1, or
\* every LED of a strip of the default length.
PosBodies ==
  Malformed \cup
  {Obj(m) : m \in UNION {[K -> Points] : K \in SUBSET (0..(MaxNum - 1))}} \cup
  {[kind |-> "obj", map |-> NoMap, run |-> STRIP_NUMPIXELS_DEFAULT]}

NumBodies ==
  {[kind |-> k, num |-> 0] : k \in {"empty", "bad", "nonum"}} \cup
  {[kind |-> "num", num |-> n] : n \in ((-1)..MaxNum) \cup {MAX_NUM_LEDS, MAX_NUM_LEDS + 1}}

BaseBodies ==
  {[kind |-> k, rgb |-> NoMap] : k \in {"empty", "bad"}} \cup
  {[kind |-> "obj", rgb |-> m] :
     m \in {("r" :> 200) @@ ("b" :> 0), ("r" :> 300) @@ ("g" :> 10)}}

TimeSteps == {0, TickMs}

\* The routes of setup(): <<method, path, handler>>.
Routes ==
  {<<"GET", "/", "page">>,
   <<"GET", "/static/style.css", "page">>,
   <<"GET", "/static/script/main.js", "page">>,
   <<"GET", "/static/script/ui.js", "page">>,
   <<"GET", "/static/script/merge_directions.js", "page">>,
   <<"GET", "/static/script/capture_unidirectional.js", "page">>,
   <<"GET", "/static/script/effects.js", "page">>,
   <<"POST", "/configure_leds", "configure_leds">>,
   <<"POST", "/set_led_positions", "set_led_positions">>,
   <<"GET", "/get_saved_led_positions", "get_saved_led_positions">>,
   <<"POST", "/set_num_leds", "set_num_leds">>,
   <<"GET", "/get_num_leds", "get_num_leds">>,
   <<"POST", "/effects/stop", "stop">>,
   <<"POST", "/effects/blink", "blink">>,
   <<"POST", "/effects/allon", "allon">>,
   <<"POST", "/effects/basecolor", "basecolor">>}

\* The handler WebServer::handleClient() calls for a request: that of the
\* route with the request's method and path, handleNotFound without one.
route(r) ==
  LET hit == {t \in Routes : t[1] = r.method /\ t[2] = r.path}
  IN  IF hit = {} THEN "not_found" ELSE (CHOOSE t \in hit : TRUE)[3]

\* The requests clients send: one for each route (of the pages, the first),
\* the four plane effects, a path nobody serves, and a GET of a POST route.
Requests ==
  {[method |-> t[1], path |-> t[2]] : t \in {u \in Routes : u[3] = "page" => u[2] = "/"}} \cup
  {[method |-> "POST", path |-> p] :
     p \in {"/effects/planex", "/effects/planey", "/effects/planez",
            "/effects/sweepingplane", "/nowhere"}} \cup
  {[method |-> "GET", path |-> "/effects/blink"]}
NoRequest == [method |-> "", path |-> ""]
\* The requests that reach each handler.
RoutedTo == [op \in {t[3] : t \in Routes} \cup {"not_found"} |-> {r \in Requests : route(r) = op}]

(***************************************************************************)
(* The state after power-on and setup(), and the actions.                  *)
(***************************************************************************)
Boot(store) ==
  \E g \in Garbage :
    \E s \in {setup(store, g)} :
    /\ Commit(s)
    /\ now' = UL(setupMillis(MAX_NUM_LEDS))
    /\ uptime' = 0
    /\ startedAt' = 0
    /\ phase' = "client"
    /\ last' = [op |-> "setup", body |-> EmptyBody]
    /\ request' = NoRequest

Init ==
  \E g \in Garbage :
    \E s \in {setup(EmptyStore, g)} :
    /\ numPixels = s.numPixels
    /\ ledMask = s.ledMask
    /\ ledPositions = s.ledPositions
    /\ pixels = s.pixels
    /\ allocated = s.allocated
    /\ strip = s.strip
    /\ nShow = s.nShow
    /\ baseColor = s.baseColor
    /\ currentEffect = s.currentEffect
    /\ effectStartTimeMs = s.effectStartTimeMs
    /\ prefs = s.prefs
    /\ writable = s.writable
    /\ code = s.code
    /\ reply = s.reply
    /\ fault = s.fault
    /\ now = UL(setupMillis(MAX_NUM_LEDS))
    /\ uptime = 0
    /\ startedAt = 0
    /\ phase = "client"
    /\ last = [op |-> "setup", body |-> EmptyBody]
    /\ request = NoRequest

\* A request served by server.handleClient(): one that it routes to the
\* handler op, and the handler runs to completion.
Served(s, op, body) ==
  /\ phase = "client"
  /\ request' \in RoutedTo[op]
  /\ \E done \in {s} : Commit(done)
  /\ phase' = "effect"
  /\ last' = [op |-> op, body |-> body]
  /\ startedAt' = IF op \in {"blink", "allon"} THEN uptime
                  ELSE IF op = "stop" THEN 0 ELSE startedAt
  /\ UNCHANGED <<now, uptime>>

ConfigureLEDs ==
  /\ phase = "client"
  /\ \E body \in ConfigBodies(numPixels) :
       Served(handleConfigureLEDs(Cur, body), "configure_leds", body)

SetLedPositions ==
  /\ phase = "client"
  /\ \E body \in PosBodies, g \in Garbage :
       Served(handleSetLedPositions(Cur, body, g), "set_led_positions", body)

GetSavedLedPositions ==
  Served(handleGetSavedLedPositions(Cur), "get_saved_led_positions", EmptyBody)

SetNumLEDs ==
  /\ phase = "client"
  /\ \E body \in NumBodies, g \in Garbage :
       Served(handleSetNumLEDs(Cur, body, g), "set_num_leds", body)

GetNumLEDs ==
  Served(handleGetNumLEDs(Cur), "get_num_leds", EmptyBody)

SetBaseColor ==
  /\ phase = "client"
  /\ \E body \in BaseBodies :
       Served(handleSetBaseColor(Cur, body), "basecolor", body)

StopEffects ==
  Served(handleStopEffects(Cur), "stop", EmptyBody)

StartBlinkEffect ==
  Served(handleStartBlinkEffect(Cur, now), "blink", EmptyBody)

AllOnEffect ==
  Served(handleAllOnEffect(Cur, now), "allon", EmptyBody)

NotFound ==
  Served(handleNotFound(Cur), "not_found", EmptyBody)

Page ==
  Served(handleRoot(Cur), "page", EmptyBody)

\* The rest of a loop() iteration: the update of the current effect, d ms later.
Tick ==
  \E d \in TimeSteps :
    /\ uptime + d <= MaxAdvance
    /\ now' = add32(now, d)
    /\ uptime' = uptime + d
    /\ UNCHANGED startedAt
    /\ \E done \in {updateEffect(Cur, add32(now, d))} : Commit(done)
    /\ phase' = "client"
    /\ last' = [op |-> "tick", body |-> EmptyBody]
    /\ request' = NoRequest

\* Power cycle: the globals are reinitialised and setup() runs on the store.
\* It is taken between two iterations of loop(): the effect update of an
\* iteration writes nothing to the store, so a cut before it starts the
\* firmware in the same way.
Reboot == phase = "client" /\ Boot(prefs)

\* The firmware after a first start: loop() serving requests and updating the effect.
Next ==
  \/ ConfigureLEDs
  \/ SetLedPositions
  \/ GetSavedLedPositions
  \/ SetNumLEDs
  \/ GetNumLEDs
  \/ SetBaseColor
  \/ StopEffects
  \/ StartBlinkEffect
  \/ AllOnEffect
  \/ NotFound
  \/ Page
  \/ Tick

Spec == Init /\ [][Next]_vars

\* The same, with power cycles: every later start finds the store the last run left.
NextPower == Next \/ Reboot

SpecPower == Init /\ [][NextPower]_vars

(***************************************************************************)
(* The firmware on a store that fails: the requests that write to the     *)
(* store and the ticks of loop(), up to the first request during which     *)
(* every write to the store fails.                                         *)
(***************************************************************************)
FailedSetLedPositions ==
  /\ phase = "client"
  /\ \E body \in PosBodies, g \in Garbage :
       Served(handleSetLedPositions(Unwritable, body, g), "set_led_positions", body)

FailedSetNumLEDs ==
  /\ phase = "client"
  /\ \E body \in NumBodies, g \in Garbage :
       Served(handleSetNumLEDs(Unwritable, body, g), "set_num_leds", body)

FailedSetBaseColor ==
  /\ phase = "client"
  /\ \E body \in BaseBodies :
       Served(handleSetBaseColor(Unwritable, body), "basecolor", body)

FailedStopEffects ==
  Served(handleStopEffects(Unwritable), "stop", EmptyBody)

FailedStartBlinkEffect ==
  Served(handleStartBlinkEffect(Unwritable, now), "blink", EmptyBody)

FailedAllOnEffect ==
  Served(handleAllOnEffect(Unwritable, now), "allon", EmptyBody)

NextFaulty ==
  \/ writable /\ SetLedPositions
  \/ writable /\ SetNumLEDs
  \/ writable /\ SetBaseColor
  \/ writable /\ StopEffects
  \/ writable /\ StartBlinkEffect
  \/ writable /\ AllOnEffect
  \/ writable /\ Tick
  \/ FailedSetLedPositions
  \/ FailedSetNumLEDs
  \/ FailedSetBaseColor
  \/ FailedStopEffects
  \/ FailedStartBlinkEffect
  \/ FailedAllOnEffect

SpecFaulty == Init /\ [][NextFaulty]_vars

(***************************************************************************)
(* The firmware shortly before millis() wraps, 2^32 ms (49.7 days) after   *)
(* power-on: no request came since setup(), the loop ran with no effect    *)
(* to update, and LateLeft milliseconds are left before the clock is 0     *)
(* again.                                                                  *)
(***************************************************************************)
LateLeft == {1, 500, 1000}
LateClocks == {<<TwoPow16 - 1, TwoPow16 - k>> : k \in LateLeft}

InitLate ==
  \E g \in Garbage :
    \E s \in {setup(EmptyStore, g)} :
    /\ numPixels = s.numPixels
    /\ ledMask = s.ledMask
    /\ ledPositions = s.ledPositions
    /\ pixels = s.pixels
    /\ allocated = s.allocated
    /\ strip = s.strip
    /\ nShow = s.nShow
    /\ baseColor = s.baseColor
    /\ currentEffect = s.currentEffect
    /\ effectStartTimeMs = s.effectStartTimeMs
    /\ prefs = s.prefs
    /\ writable = s.writable
    /\ code = s.code
    /\ reply = s.reply
    /\ fault = s.fault
    /\ now \in LateClocks
    /\ uptime = 0
    /\ startedAt = 0
    /\ phase = "client"
    /\ last = [op |-> "tick", body |-> EmptyBody]
    /\ request = NoRequest

NextLate ==
  \/ ConfigureLEDs
  \/ SetBaseColor
  \/ StopEffects
  \/ StartBlinkEffect
  \/ AllOnEffect
  \/ Tick

SpecLate == InitLate /\ [][NextLate]_vars

(***************************************************************************)
(* The helpers called on their own, on the states that requests set up:    *)
(* setPixelColor with any index and color, redrawPixels, showPixelColors.  *)
(***************************************************************************)
CallColors == {<<10, 20, 30>>, Black}

Called(s, op, body) ==
  /\ \E done \in {s} : Commit(done)
  /\ last' = [op |-> op, body |-> body]
  /\ request' = NoRequest
  /\ UNCHANGED <<now, uptime, startedAt, phase>>

SetPixelCall ==
  \E index \in (0..(MaxNum - 1)) \cup {numPixels}, c \in CallColors :
    Called(setPixelColor(Cur, index, c), "setPixelColor", [index |-> index, color |-> c])

RedrawCall == Called(redrawPixels(Cur), "redrawPixels", EmptyBody)

ShowCall == Called(showPixelColors(Cur), "showPixelColors", EmptyBody)

NextCalls ==
  \/ ConfigureLEDs
  \/ SetNumLEDs
  \/ SetBaseColor
  \/ Tick
  \/ SetPixelCall
  \/ RedrawCall
  \/ ShowCall

SpecCalls == Init /\ [][NextCalls]_vars


(***************************************************************************)
(* Properties of the firmware.                                             *)
(***************************************************************************)
AllBlack(a) == \A i \in Indices(a) : Get(a, i) = Black

\* The LEDs to look at when a step is compared LED by LED: those of S, which
\* holds every LED at which one of the arrays compared differs from its fill
\* value, and the LEDs 0..|S|, one of which lies outside S (unless S is the
\* whole strip) and stands for all the LEDs that hold the fill value.
Probes(S, n) == {j \in S \cup (0..Cardinality(S)) : j >= 0 /\ j < n}

\* C1: while Blink runs, a tick shows every masked-on LED at the base color
\* exactly when floor(elapsed / 1000) mod 2 = 0, elapsed = now - startTime,
\* and every LED black otherwise (on at 0 ms, off at 1000 ms).
C1_BlinkFollowsElapsed ==
  (last.op = "tick" /\ currentEffect = EFFECT_BLINK) =>
    LET elapsed == sub32(now, effectStartTimeMs)
        on == div1000(elapsed) % 2 = 0
    IN  \A i \in Indices(strip) :
          Get(strip, i) = IF on /\ Get(ledMask, i) THEN baseColor ELSE Black

\* C2: when the request that starts an effect has been served and no tick of
\* the effect has run yet, every LED is black, in the buffer and on the strip.
C2_StartBlacksOut ==
  last.op = "blink" =>
    /\ currentEffect = EFFECT_BLINK
    /\ AllBlack(pixels)
    /\ AllBlack(strip)

\* C3: after POST /effects/stop the current effect is None and every LED is
\* black, whatever the mask and the base color are.
C3_StopBlacksOut ==
  last.op = "stop" =>
    /\ currentEffect = EFFECT_NONE
    /\ \A i \in Indices(pixels) : Get(pixels, i) = Black /\ Get(strip, i) = Black

\* C4: in every state after startup, whatever requests, ticks and power
\* cycles came before, the mask, the positions and the color buffer are
\* allocated and each has exactly numPixels elements.
C4_LengthsMatchCount ==
  /\ allocated = {"pixels", "ledMask", "ledPositions"}
  /\ Size(ledMask) = numPixels
  /\ Size(ledPositions) = numPixels
  /\ Size(pixels) = numPixels
  /\ Support(ledMask) \cup Support(ledPositions) \cup Support(pixels) \subseteq 0..(numPixels - 1)

\* C4 happens: a start that found a stored mapping of one position and sized
\* the three arrays to it.
C4_Witness ==
  /\ last.op = "setup"
  /\ prefs.led_positions.kind = "obj"
  /\ members(prefs.led_positions) = 1
  /\ numPixels = 1
  /\ Size(ledMask) = 1 /\ Size(ledPositions) = 1 /\ Size(pixels) = 1

\* C5: in every state after startup the LED count is at least 1 and at most 8196.
C5_CountInRange == numPixels >= 1 /\ numPixels <= MAX_NUM_LEDS

\* C6: POST /set_num_leds with n in 1..8196 succeeds, and then the count, and
\* the number get_num_leds reports, is n and every mask entry is false.
C6_ResizeClearsMask ==
  (/\ last.op = "set_num_leds"
   /\ last.body.kind = "num"
   /\ last.body.num >= 1 /\ last.body.num <= MAX_NUM_LEDS) =>
    /\ code = 200
    /\ numPixels = last.body.num
    /\ handleGetNumLEDs(Cur).reply = last.body.num
    /\ Size(ledMask) = last.body.num
    /\ \A i \in Indices(ledMask) : ~Get(ledMask, i)

\* C6 happens: a resize to MaxNum LEDs was served.
C6_Witness ==
  /\ last.op = "set_num_leds"
  /\ code = 200
  /\ last.body.num = MaxNum
  /\ numPixels = MaxNum
  /\ \A i \in Indices(ledMask) : ~Get(ledMask, i)

\* C7: right after a resize by POST /set_num_leds, the position of every LED
\* is the origin.
C7_ResizeZeroesPositions ==
  (last.op = "set_num_leds" /\ code = 200) =>
    \A i \in Indices(ledPositions) : Get(ledPositions, i) = Origin

\* C8: setPixelColor(index, c) with a valid index writes black to that LED if
\* its mask is false and c if it is true, changes no other LED and no mask
\* entry, and shows nothing on the strip.
C8_SetPixelHonoursMask ==
  [][(last'.op = "setPixelColor" /\ last'.body.index \in Indices(pixels)) =>
       LET index == last'.body.index
           c == last'.body.color
       IN  /\ Size(pixels') = Size(pixels)
           /\ \A j \in Probes(Support(pixels) \cup Support(pixels') \cup {index},
                              Size(pixels)) :
                Get(pixels', j) = IF j # index THEN Get(pixels, j)
                                  ELSE IF Get(ledMask, index) THEN c ELSE Black
           /\ ledMask' = ledMask
           /\ strip' = strip
           /\ nShow' = 0]_vars

\* C8 happens: a color was written to a masked-on LED, beside a masked-off
\* one, and the strip does not show it.
C8_Witness ==
  /\ last.op = "setPixelColor"
  /\ last.body.index \in Indices(pixels)
  /\ last.body.color # Black
  /\ Get(ledMask, last.body.index)
  /\ Get(pixels, last.body.index) = last.body.color
  /\ Get(strip, last.body.index) # last.body.color
  /\ \E j \in Indices(ledMask) : ~Get(ledMask, j)

\* C9: setPixelColor(index, c) with index outside 0..numPixels-1 reads no mask
\* entry, writes no color and changes no state.
C9_OutOfRangeIsNoOp ==
  [][(last'.op = "setPixelColor" /\ last'.body.index \notin Indices(pixels)) =>
       /\ ~fault'
       /\ pixels' = pixels
       /\ strip' = strip
       /\ ledMask' = ledMask
       /\ numPixels' = numPixels]_vars

\* C10: redrawPixels sets every LED whose mask is true to the base color and
\* every LED whose mask is false to black, for all of 0..numPixels-1, and
\* then shows the buffer on the strip, once.
C10_RedrawShowsMask ==
  [][last'.op = "redrawPixels" =>
       /\ ledMask' = ledMask
       /\ baseColor' = baseColor
       /\ Size(pixels') = numPixels
       /\ \A i \in Probes(Support(pixels') \cup Support(ledMask), numPixels) :
            Get(pixels', i) = IF Get(ledMask, i) THEN baseColor ELSE Black
       /\ strip' = pixels'
       /\ nShow' = 1]_vars

\* C10 happens: a redraw lit a masked-on LED with the base color beside a
\* masked-off LED that it turned black.
C10_Witness ==
  /\ last.op = "redrawPixels"
  /\ nShow = 1
  /\ baseColor # Black
  /\ \E i \in Indices(ledMask), j \in Indices(ledMask) :
       /\ Get(ledMask, i) /\ Get(strip, i) = baseColor
       /\ ~Get(ledMask, j) /\ Get(strip, j) = Black

\* C11: after a start that found a stored position mapping, the LED count is
\* the number of entries of that mapping, whatever LED count is stored
\* beside it.
C11_CountFollowsStoredMapping ==
  (last.op = "setup" /\ prefs.led_positions.kind = "obj") =>
    numPixels = members(prefs.led_positions)

\* C12: after a start, every LED that the stored position mapping names and
\* that lies within the LED count has the stored position in memory.
C12_PositionsRestored ==
  (last.op = "setup" /\ prefs.led_positions.kind = "obj") =>
    \A i \in 0..(numPixels - 1) :
      hasKey(prefs.led_positions, i) =>
        Get(ledPositions, i) = valueOf(prefs.led_positions, i)

\* C13: a restart leaves the LED mask as it was before the restart.
C13_MaskSurvivesRestart ==
  [][last'.op = "setup" => ledMask' = ledMask]_vars

persistedEffect == getUInt(prefs.last_effect, EFFECT_NONE)

\* C14: in every state after startup and after a handler the stored
\* last_effect is the current effect, and a restart leaves the current
\* effect what it was.
C14_EffectPersisted ==
  /\ [](persistedEffect = currentEffect)
  /\ [][last'.op = "setup" => currentEffect' = currentEffect]_vars

\* C14 happens: a restart came back blinking.
C14_Witness ==
  /\ last.op = "setup"
  /\ currentEffect = EFFECT_BLINK
  /\ prefs.last_effect = EFFECT_BLINK

persistedColor ==
  <<getUInt(prefs.bR, BASE_DEFAULT), getUInt(prefs.bG, BASE_DEFAULT),
    getUInt(prefs.bB, BASE_DEFAULT)>>
Component == [r |-> 1, g |-> 2, b |-> 3]

\* C15 as stated: a POST /effects/basecolor that is answered 200 replaces
\* each of r, g, b that its body has and keeps each that it has not, and
\* leaves the stored base color equal to the one in memory.
C15_PresentReplaceAbsentKeep ==
  [][(last'.op = "basecolor" /\ code' = 200) =>
       /\ \A name \in {"r", "g", "b"} :
            baseColor'[Component[name]] =
              IF name \in DOMAIN last'.body.rgb THEN last'.body.rgb[name]
              ELSE baseColor[Component[name]]
       /\ persistedColor' = baseColor']_vars

\* C15, amended: the components replaced are those the body gives as an
\* integer of 0..255; each other component, absent or not such a number,
\* is kept; the stored base color equals the one in memory afterwards.
C15_BaseColorUpdate ==
  [][(last'.op = "basecolor" /\ code' = 200) =>
       /\ \A name \in {"r", "g", "b"} :
            baseColor'[Component[name]] =
              IF name \in DOMAIN last'.body.rgb /\ last'.body.rgb[name] \in 0..255
              THEN last'.body.rgb[name]
              ELSE baseColor[Component[name]]
       /\ persistedColor' = baseColor']_vars

\* C15 happens: a body with g = 10 and r = 300 replaced g and kept the r and
\* the b that an earlier request had set.
C15_Witness ==
  /\ last.op = "basecolor" /\ code = 200
  /\ last.body.rgb = ("r" :> 300) @@ ("g" :> 10)
  /\ baseColor = <<200, 10, 0>>
  /\ persistedColor = <<200, 10, 0>>

\* C16: a request answered with a 4xx status leaves the LED count, the
\* mask, the positions, the base color, the current effect, the colors
\* shown and every stored entry as they were.
C16_RejectedChangesNothing ==
  [][(code' >= 400 /\ code' <= 499) =>
       /\ numPixels' = numPixels
       /\ ledMask' = ledMask
       /\ ledPositions' = ledPositions
       /\ baseColor' = baseColor
       /\ currentEffect' = currentEffect
       /\ strip' = strip
       /\ prefs' = prefs]_vars

\* C16 happens: a count of 8197 was answered 400 while an LED was lit and
\* a count was in the store.
C16_Witness ==
  /\ last.op = "set_num_leds"
  /\ last.body.kind = "num" /\ last.body.num = MAX_NUM_LEDS + 1
  /\ code = 400
  /\ prefs.num_leds = numPixels
  /\ \E i \in Support(strip) : Get(ledMask, i)

\* C17: a POST /configure_leds whose body names an index outside
\* 0..numPixels-1 is answered with a 4xx status and changes no mask entry
\* and no color shown.
C17_OutOfRangeRejected ==
  [][(/\ last'.op = "configure_leds"
      /\ last'.body.kind = "obj"
      /\ \E k \in DOMAIN last'.body.map : k < 0 \/ k >= numPixels) =>
       /\ code' >= 400 /\ code' <= 499
       /\ ledMask' = ledMask
       /\ strip' = strip]_vars

PlanePaths ==
  {"/effects/planex", "/effects/planey", "/effects/planez", "/effects/sweepingplane"}

\* C18: a POST of /effects/stop, /effects/blink or /effects/allon leaves the
\* current effect None, Blink or AllOn, and a POST of /effects/planex,
\* /effects/planey, /effects/planez or /effects/sweepingplane leaves it a
\* sweep, an effect that is none of those three.
C18_EffectRoutes ==
  [][request'.method = "POST" =>
       /\ request'.path = "/effects/stop" => currentEffect' = EFFECT_NONE
       /\ request'.path = "/effects/blink" => currentEffect' = EFFECT_BLINK
       /\ request'.path = "/effects/allon" => currentEffect' = EFFECT_ALL_ON
       /\ request'.path \in PlanePaths =>
            currentEffect' \notin {EFFECT_NONE, EFFECT_BLINK, EFFECT_ALL_ON}]_vars

\* C19: a request whose path no route has is answered with an error status
\* and leaves the current effect, its start time, the colors in the buffer
\* and on the strip, the mask and the store as they were.
C19_UnknownPathChangesNothing ==
  [][(request' # NoRequest /\ \A t \in Routes : t[2] # request'.path) =>
       /\ code' >= 400
       /\ currentEffect' = currentEffect
       /\ effectStartTimeMs' = effectStartTimeMs
       /\ pixels' = pixels
       /\ strip' = strip
       /\ ledMask' = ledMask
       /\ prefs' = prefs]_vars

\* C19 happens: POST /effects/planex was answered 404 while the strip went
\* on blinking with an LED lit.
C19_Witness ==
  /\ request = [method |-> "POST", path |-> "/effects/planex"]
  /\ code = 404
  /\ currentEffect = EFFECT_BLINK
  /\ effectStartTimeMs # UL(0)
  /\ \E i \in Support(strip) : Get(ledMask, i)

\* C20: after a POST /set_led_positions that was answered 200, with a JSON
\* object of m entries as its body, the stored led_positions is the body, the
\* LED count is m, and every LED idx with 0 <= idx < m that the body names
\* has the position the body gives it.
C20_PositionsStoredAndLoaded ==
  (last.op = "set_led_positions" /\ code = 200 /\ last.body.kind = "obj") =>
    /\ prefs.led_positions = last.body
    /\ numPixels = members(last.body)
    /\ \A idx \in 0..(members(last.body) - 1) :
         hasKey(last.body, idx) => Get(ledPositions, idx) = valueOf(last.body, idx)

\* C20 happens: a body of two positions made a strip of two LEDs, each at
\* its position.
C20_Witness ==
  /\ last.op = "set_led_positions" /\ code = 200
  /\ last.body.kind = "obj" /\ DOMAIN last.body.map = {0, 1}
  /\ prefs.led_positions = last.body
  /\ numPixels = 2
  /\ Get(ledPositions, 0) = last.body.map[0]
  /\ Get(ledPositions, 1) = last.body.map[1]

\* The strip shows the mask: the base color at every LED whose mask is
\* true, black at every other LED.
MaskShown ==
  \A i \in Probes(Support(strip) \cup Support(ledMask), numPixels) :
    Get(strip, i) = IF Get(ledMask, i) THEN baseColor ELSE Black
AllOnShown == currentEffect = EFFECT_ALL_ON /\ MaskShown

\* C21: when POST /effects/allon has been served the current effect is AllOn
\* and the strip shows the base color at every masked-on LED and black at
\* every masked-off LED, and every tick taken in such a state leaves it so.
C21_AllOnStays ==
  [][/\ last'.op = "allon" => AllOnShown'
     /\ (AllOnShown /\ last'.op = "tick") => AllOnShown']_vars

\* C21 happens: a second after the start of AllOn, a tick later, a masked-on
\* LED still shows the base color.
C21_Witness ==
  /\ last.op = "tick" /\ uptime = TickMs
  /\ AllOnShown
  /\ effectStartTimeMs # now
  /\ \E i \in Support(ledMask) : Get(strip, i) = baseColor /\ baseColor # Black

\* C22: a tick while the current effect is None or AllOn leaves the color
\* buffer, the mask, the positions, the base color, the current effect and
\* the start time as they were and shows nothing on the strip.
C22_IdleTickChangesNothing ==
  [][(last'.op = "tick" /\ currentEffect \in {EFFECT_NONE, EFFECT_ALL_ON}) =>
       /\ pixels' = pixels
       /\ strip' = strip
       /\ nShow' = 0
       /\ ledMask' = ledMask
       /\ ledPositions' = ledPositions
       /\ baseColor' = baseColor
       /\ currentEffect' = currentEffect
       /\ effectStartTimeMs' = effectStartTimeMs]_vars

\* C22 happens: a tick with no effect running, after a request had lit an
\* LED, showed nothing.
C22_Witness ==
  /\ last.op = "tick"
  /\ currentEffect = EFFECT_NONE
  /\ nShow = 0
  /\ Support(strip) # {}

\* The coordinate an axis sweep follows, by the path that starts it.
AxisOf ==
  ("/effects/planex" :> 1) @@ ("/effects/planey" :> 2) @@ ("/effects/planez" :> 3)
\* A duration below 2^31 ms, as a number.
Millis(a) == a[1] * TwoPow16 + a[2]
Dist(a, b) == IF a >= b THEN a - b ELSE b - a

\* C23: on the tick that follows the start of an axis sweep, elapsed ms
\* after the request, an LED shows the base color exactly when its mask is
\* true and its coordinate on the axis is less than 0.1 away from
\* elapsed / 1000, and black otherwise.
C23_AxisSweepLights ==
  [][(/\ request.method = "POST"
      /\ request.path \in DOMAIN AxisOf
      /\ last'.op = "tick") =>
       LET elapsed == Millis(sub32(now', now))
           axis == AxisOf[request.path]
       IN  \A i \in Probes(Support(strip') \cup Support(ledMask) \cup Support(ledPositions),
                           numPixels) :
             Get(strip', i) =
               IF Get(ledMask, i) /\ Dist(1000 * Get(ledPositions, i)[axis], elapsed) < 100
               THEN baseColor ELSE Black]_vars

\* C24: a sweep restarts when the plane has passed the last LED.  With every
\* LED at the origin every depth is 0, so the tick that comes a second after
\* the start of a sweep finds the plane at 1, past the greatest depth, and
\* sets the start time to the time of that tick.
C24_SweepRestarts ==
  [][(/\ request.method = "POST"
      /\ request.path \in PlanePaths
      /\ numPixels > 0
      /\ \A i \in Probes(Support(ledPositions), numPixels) : Get(ledPositions, i) = Origin
      /\ last'.op = "tick"
      /\ Millis(sub32(now', now)) = 1000) =>
       effectStartTimeMs' = now']_vars

\* What the handler of the last request leaves when it runs from state s
\* with the body and the garbage g, by the name of the request.
Handled(s, op, body, g, millis) ==
  CASE op = "set_led_positions" -> handleSetLedPositions(s, body, g)
    [] op = "set_num_leds" -> handleSetNumLEDs(s, body, g)
    [] op = "basecolor" -> handleSetBaseColor(s, body)
    [] op = "stop" -> handleStopEffects(s)
    [] op = "blink" -> handleStartBlinkEffect(s, millis)
    [] op = "allon" -> handleAllOnEffect(s, millis)
    [] OTHER -> s

\* C25: a request whose writes to the store fail leaves the LED count, the
\* positions, the base color and the current effect as the same request
\* leaves them when its writes succeed.
C25_FailedWriteSameMemory ==
  [][~writable' =>
       \E g \in Garbage :
         LET ok == Handled(Cur, last'.op, last'.body, g, now)
         IN  /\ numPixels' = ok.numPixels
             /\ ledPositions' = ok.ledPositions
             /\ baseColor' = ok.baseColor
             /\ currentEffect' = ok.currentEffect]_vars

\* C26: in every state, after startup and after each handler and tick, every
\* LED whose mask is false shows black.
C26_MaskDominates ==
  \A i \in Probes(Support(strip) \cup Support(ledMask), numPixels) :
    ~Get(ledMask, i) => Get(strip, i) = Black

\* C26 happens: a request masked off one of the LEDs that were lit; it went
\* black and another stayed lit.
C26_Witness ==
  /\ last.op = "configure_leds" /\ code = 200
  /\ \E k \in DOMAIN last.body.map :
       /\ k \in Indices(ledMask)
       /\ ~last.body.map[k]
       /\ ~Get(ledMask, k)
       /\ Get(strip, k) = Black
  /\ \E j \in Support(ledMask) : Get(strip, j) = baseColor /\ baseColor # Black

\* C27: POST /configure_leds with an object as its body gives the mask of
\* every LED that the body lists and that lies in 0..numPixels-1 the value
\* listed, writes no mask entry outside the array, and leaves the mask of
\* every other LED, the LED count, the positions, the base color and the
\* current effect as they were.
C27_ConfigureSetsListed ==
  [][(last'.op = "configure_leds" /\ last'.body.kind = "obj") =>
       /\ \A i \in Probes(Support(ledMask') \cup Support(ledMask) \cup DOMAIN last'.body.map,
                           numPixels) :
            Get(ledMask', i) =
              IF i \in DOMAIN last'.body.map THEN last'.body.map[i] ELSE Get(ledMask, i)
       /\ Size(ledMask') = Size(ledMask)
       /\ Support(ledMask') \subseteq 0..(numPixels - 1)
       /\ ~fault'
       /\ numPixels' = numPixels
       /\ ledPositions' = ledPositions
       /\ baseColor' = baseColor
       /\ currentEffect' = currentEffect]_vars

\* C27 happens: a request masked LED 1 on and LED 0, which it did not list,
\* stayed on.
C27_Witness ==
  /\ last.op = "configure_leds" /\ code = 200
  /\ last.body.kind = "obj" /\ DOMAIN last.body.map = {1}
  /\ Get(ledMask, 1) /\ Get(ledMask, 0)
  /\ ~fault

\* C28: starting an effect, stopping the effects and a tick leave the mask,
\* the positions and the LED count as they were.
C28_EffectsKeepConfiguration ==
  [][last'.op \in {"stop", "blink", "allon", "tick"} =>
       /\ ledMask' = ledMask
       /\ ledPositions' = ledPositions
       /\ numPixels' = numPixels]_vars

\* C28 happens: the effects were stopped on a strip of two LEDs with a
\* stored position each and a mask that has an LED on.
C28_Witness ==
  /\ last.op = "stop"
  /\ numPixels = 2
  /\ Support(ledMask) # {}
  /\ Get(ledPositions, 0) = <<1, 2, 3>> /\ Get(ledPositions, 1) = <<1, 2, 3>>

\* C29: every request handler other than that of POST /effects/basecolor,
\* and every tick, leaves the base color as it was.
C29_OnlyBaseColorRequestSetsIt ==
  [][last'.op # "basecolor" => baseColor' = baseColor]_vars

\* C29 happens: a stop of the effects kept a base color that two requests
\* had set.
C29_Witness ==
  /\ last.op = "stop"
  /\ baseColor = <<200, 10, 0>>

DeclaredEffects == {EFFECT_NONE, EFFECT_BLINK, EFFECT_ALL_ON}

\* C30: in every state, right after a start that restored the last effect
\* from the store too, the current effect is one that EffectType declares.
C30_EffectDeclared == currentEffect \in DeclaredEffects

\* C30 happens: a start restored AllOn from the store.
C30_Witness ==
  /\ last.op = "setup"
  /\ prefs.last_effect = EFFECT_ALL_ON
  /\ currentEffect = EFFECT_ALL_ON

\* C31: no operation, the start included, reads or writes an entry of the
\* mask or of the positions through a pointer that is still nullptr or
\* outside the array.
C31_NoAccessBeforeAllocation == ~fault

\* C32: a POST /set_led_positions answered 200 whose object has as many
\* entries as there are LEDs leaves the LED count, the mask, the colors
\* shown and the current effect as they were and changes the position of
\* no LED that it does not list; one whose object has another number of
\* entries leaves every mask entry false.
C32_SameSizeKeepsStrip ==
  [][(last'.op = "set_led_positions" /\ code' = 200 /\ last'.body.kind = "obj") =>
       IF members(last'.body) = numPixels
       THEN /\ numPixels' = numPixels
            /\ ledMask' = ledMask
            /\ strip' = strip
            /\ pixels' = pixels
            /\ currentEffect' = currentEffect
            /\ Size(ledPositions') = Size(ledPositions)
            /\ \A i \in Probes(Support(ledPositions') \cup Support(ledPositions)
                                  \cup DOMAIN last'.body.map, numPixels) :
                 ~hasKey(last'.body, i) => Get(ledPositions', i) = Get(ledPositions, i)
       ELSE /\ Size(ledMask') = members(last'.body)
            /\ Support(ledMask') = {}]_vars

\* C32 happens: two positions arrived for a strip of two LEDs; the LED that
\* was masked on is still on and lit, and both positions are in memory.
C32_Witness ==
  /\ last.op = "set_led_positions" /\ code = 200
  /\ last.body.kind = "obj" /\ members(last.body) = 2
  /\ numPixels = 2
  /\ \E i \in Support(ledMask) : Get(strip, i) = baseColor /\ baseColor # Black
  /\ Get(ledPositions, 0) = <<1, 2, 3>> /\ Get(ledPositions, 1) = <<1, 2, 3>>

\* C33: while Blink runs, the elapsed time that a tick computes,
\* (now - startTime) mod 2^32, is the time that really passed since the
\* effect was started, also when the clock wrapped to 0 in between, and the
\* tick shows the strip in the phase of that real time.
C33_ElapsedAcrossWrap ==
  (last.op = "tick" /\ currentEffect = EFFECT_BLINK) =>
    /\ sub32(now, effectStartTimeMs) = UL(uptime - startedAt)
    /\ \A i \in Probes(Support(strip) \cup Support(ledMask), numPixels) :
         Get(strip, i) = IF Get(ledMask, i) /\ blinkOn(UL(uptime - startedAt))
                         THEN baseColor ELSE Black

\* C33 happens: Blink was started before the wrap, the clock has wrapped,
\* and a tick a second after the start has updated a masked-on LED.
C33_Witness ==
  /\ last.op = "tick" /\ currentEffect = EFFECT_BLINK
  /\ effectStartTimeMs[1] = TwoPow16 - 1 /\ now[1] = 0
  /\ uptime - startedAt = TickMs
  /\ Support(ledMask) # {}
====
